---- MODULE Spec2Model ----
(***************************************************************************)
(* The retrying Spotify fetch functions of the data-acquisition pipeline   *)
(* (scripts/get_artists.py, scripts/get_albums.py, scripts/get_songs.py)   *)
(* and the driver loops that call them.                                    *)
(*                                                                         *)
(* The program is single-threaded.  One action is one step of the control  *)
(* flow: one iteration of a retry loop (request, classification, return or *)
(* backoff sleep), the code after the loop, one iteration of a driver      *)
(* loop.  The HTTP transport, the token service and the object store are   *)
(* the environment: what they answer is chosen with \E.                    *)
(***************************************************************************)
EXTENDS Integers, Sequences, FiniteSets, TLC

\* ------------------------------------------------------------------ bounds

\* Largest max_retries a direct call of a fetch function is given.
MaxRetries == 4

\* Largest sleep_time (base delay, seconds) a direct call is given.
MaxSleepTime == 2

\* Largest number of records in the artists.json a script reads.
MaxArtists == 3

\* Largest number of records in one albums.json.
MaxAlbums == 2

\* The largest batch_size tried besides the default.
MaxBatchSize == 2

\* ------------------------------------------------------- program constants

\* max_retries=3 and sleep_time=1: the defaults of the three fetch functions,
\* which every caller in the repository uses.
DefaultMaxRetries == 3

DefaultSleepTime == 1

\* --num_artists, default=1
DefaultNumArtists == 1

\* process_spotify_response(artist_list, batch_size=50), and the seconds it
\* sleeps after each batch.
DefaultBatchSize == 50

BatchPause == 1

\* ------------------------------------------------------------- environment

FetchFunctions ==
    {"get_artist_spotify", "get_albums_from_spotify", "fetch_album_songs_from_spotify"}

\* Response bodies as they arrive on the wire.  Two are JSON documents, one is
\* empty and one is not JSON.
GoodBodies == {"{page a}", "{page b}"}

BadBodies == {"", "<html>"}

\* What one requests.get can meet.  status 0 stands for no response at all
\* (connection error or timeout: requests.get itself raises).
NoResponse == [status |-> 0, body |-> ""]

ErrorStatuses == {404, 429, 500}

Responses ==
    {NoResponse}
        \cup {[status |-> 200, body |-> b] : b \in GoodBodies \cup BadBodies}
        \cup {[status |-> s, body |-> "error"] : s \in ErrorStatuses}

\* ------------------------------------------------------ the fetch functions

\* response.raise_for_status(): HTTPError for a 4xx or 5xx status.
RaiseForStatus(status) == status >= 400 /\ status < 600

\* response.json(): the decoded document; JSONDecodeError for an empty body or
\* one that is not JSON.
JsonParses(body) == body \in GoodBodies

Json(body) ==
    CASE body = "{page a}" -> [items |-> <<"a1">>, next |-> "null"]
      [] body = "{page b}" -> [items |-> <<"b1", "b2">>, next |-> "offset=50"]
      [] OTHER -> [items |-> <<>>, next |-> "undecodable"]

\* The body of the try block for one response: the exception it raises, or
\* "none" when it reaches `return response.json()`.
TryBody(resp) ==
    IF resp.status = 0 THEN "ConnectionError"
    ELSE IF RaiseForStatus(resp.status) THEN "HTTPError"
    ELSE IF ~JsonParses(resp.body) THEN "JSONDecodeError"
    ELSE "none"

\* Variants of the except clause that catch less than Exception.
ExceptConnectionErrorOnly(exc) == exc = "ConnectionError"

ExceptRequestErrorsOnly(exc) == exc \in {"ConnectionError", "HTTPError"}

\* `except Exception as e`: every exception the try block can raise is caught.
ExceptException(exc) == exc \in {"ConnectionError", "HTTPError", "JSONDecodeError"}

\* backoff_time = sleep_time * (2**attempt)
RECURSIVE Pow2(_)
Pow2(k) == IF k <= 0 THEN 1 ELSE 2 * Pow2(k - 1)

\* Variants of the delay: linear growth, and no growth.
BackoffLinear(st, att) == st * (att + 1)

BackoffConstant(st, att) == st

BackoffTime(st, att) == st * Pow2(att)

\* Variant of the loop bound: one iteration too many.
InRangeInclusive(att, n) == att <= n

\* for attempt in range(max_retries)
InRange(att, n) == att < n

\* Variant of the return value: an empty default document.
ReturnDefault(resp) == [items |-> <<>>, next |-> "null"]

\* The value handed back by `return response.json()`.
ReturnValue(resp) == Json(resp.body)

NoResult == [kind |-> "none", exc |-> "none", val |-> <<>>]

Returned(v) == [kind |-> "return", exc |-> "none", val |-> <<v>>]

Raised(exc) == [kind |-> "raise", exc |-> exc, val |-> <<>>]

\* The exception that leaves the function after the loop.  get_artist_spotify
\* and get_albums_from_spotify log an error and raise RuntimeError.
\* fetch_album_songs_from_spotify formats {e} into its log line first, and e is
\* unbound there (Python deletes the `as e` name when the except block ends,
\* and with max_retries = 0 it was never bound): that raises
\* UnboundLocalError before anything is logged.
ExhaustionError(f) ==
    IF f = "fetch_album_songs_from_spotify" THEN "UnboundLocalError" ELSE "RuntimeError"

ExhaustionLogs(f) ==
    IF f = "fetch_album_songs_from_spotify" THEN <<>> ELSE <<[level |-> "error", delay |-> 0]>>

\* ------------------------------------------------------- pipeline records

\* The fields of an artist record as the artists stage writes it
\* (process_kworb_html and process_spotify_response), and the fields the songs
\* stage reads from an artist record.
ArtistsStageFields ==
    {"spotify_id", "artist_name", "spotify_url", "init_processed_at", "metrics", "spotify_meta"}

SongsStageArtistFields == {"full_blob_name", "artist"}

ArtistFormats == {ArtistsStageFields, SongsStageArtistFields}

\* The fields of an album record as process_albums_from_spotify writes it, and
\* the fields the songs stage reads from an album record.
AlbumsStageFields ==
    {"id", "name", "artist_name", "url", "type", "release_date", "total_tracks",
     "is_processed", "images"}

SongsStageAlbumFields == {"type", "spotify_id", "album", "release_date"}

AlbumFormats == {AlbumsStageFields, SongsStageAlbumFields}

AlbumTypes == {"album", "single"}

\* An albums.json document in the bucket: the album_type of each record, in
\* order, and the fields its records carry.
AlbumFiles(maxLen) ==
    {[types |-> t, fields |-> f] :
        t \in UNION {[1..k -> AlbumTypes] : k \in 0..maxLen}, f \in AlbumFormats}

NoAlbums == [types |-> <<>>, fields |-> {}]

\* What a request, an upload or a local file is about.
Item(stage, a, b) == [stage |-> stage, artist |-> a, album |-> b]

NoItem == Item("none", 0, 0)

\* artists[:number_of_artists]: the length of a Python slice of a list of
\* length len (a negative bound counts from the end).
SliceLen(len, n) ==
    IF n >= 0 THEN (IF n < len THEN n ELSE len)
    ELSE (IF len + n > 0 THEN len + n ELSE 0)

\* The artist list process_kworb_html returns: per table row, whether the
\* record got a "metrics" field (the row's Listeners cell has text).
KworbTables == UNION {[1..k -> BOOLEAN] : k \in 0..MaxArtists}

BatchSizes == (1..MaxBatchSize) \cup {DefaultBatchSize}

\* Variant of the slice of one batch: one element too many.
BatchOfOverlapping(start, size, len) ==
    {k \in 1..len : k > start /\ k <= start + size + 1}

\* artist_list[i : i + batch_size]: the positions (counted from 1) of the list
\* of length len that the slice starting at offset start holds.
BatchOf(start, size, len) ==
    {k \in 1..len : k > start /\ k <= start + size}

\* The smallest element of a non-empty set of numbers.
Min(S) == CHOOSE k \in S : \A m \in S : k <= m

\* Variant of the branch of get_albums.py's main: the flag is ignored.
AlbumsMainAlwaysWrites(flag) == "write_token"

\* get_albums.py main: `if args.dry_run: dry_run(...) else: write_albums_to_gcs(...)`
AlbumsMainBranch(flag) == IF flag THEN "dry_token" ELSE "write_token"

\* get_songs.py main: `if args.dry_run: pass else: write_songs_to_gcs(...)`
SongsMainBranch(flag) == IF flag THEN "exit" ELSE "songs_token"

\* album_list / songs_list: one record per item of the fetched page.
RecordsOf(page) == page.items

VARIABLES
    script,       \* what runs: "call", "twice", "albums" (get_albums.py), "songs" (get_songs.py)
    transport,    \* the answers the HTTP transport can give to a request
    finished,     \* "twice": what the calls that ended returned, requested and slept
    fn,           \* the fetch function being called
    fpc,          \* its position: "idle", "token", "loop", "done"
    max_retries,  \* its parameter max_retries
    sleep_time,   \* its parameter sleep_time
    attempt,      \* its loop variable
    requests,     \* requests.get calls it has made in this call
    sleeps,       \* the time.sleep arguments of this call, in order
    logs,         \* the log lines of this call, in order
    result,       \* how the call ended: return value or exception
    served,       \* what the stub transport answered in this call, in order
    pc,           \* position of the script
    dry_run,      \* --dry_run
    num_artists,  \* --num_artists
    artists,      \* number of records of the artists.json the script reads
    artist_fields, \* the fields those records carry
    i,            \* index (from 1) of the artist the driver loop is at
    albums,       \* get_songs.py: the albums.json of that artist
    j,            \* get_songs.py: index (from 1) of the album the inner loop is at
    cur,          \* the item the current fetch is for
    requested,    \* the items an HTTP request was issued for
    uploads,      \* the blobs uploaded to the bucket, in order
    files,        \* the local files written, in order
    lastdoc,      \* the document last written (uploaded or dumped)
    outcome,      \* "running", "ok" (the script ended), "raised" (it ended by an exception)
    error,        \* the exception that ended the script, "none" before
    batch_size,   \* get_artists.py: process_spotify_response's parameter batch_size
    metrics,      \* get_artists.py: per row of the kworb table, whether it has a Listeners value
    enriched,     \* get_artists.py: per artist, the response entries it was enriched from
    pauses,       \* get_artists.py: the time.sleep(1) calls after a batch
    calls         \* get_artists.py: the calls of get_artist_spotify

fetchVars ==
    <<fn, fpc, max_retries, sleep_time, attempt, requests, sleeps, logs, result, served>>

harnessVars == <<script, transport, finished>>

inputVars == <<dry_run, num_artists, artists, artist_fields>>

driverVars == <<pc, i, albums, j, cur, uploads, files, lastdoc, outcome, error>>

artistsVars == <<batch_size, metrics, enriched, pauses, calls>>

vars == <<harnessVars, fetchVars, inputVars, driverVars, artistsVars, requested>>

\* Variant of the entry of a fetch function: a value returned earlier is kept
\* and handed out again without a request.
EnterFetchCached(f, n, st) ==
    /\ fn' = f
    /\ max_retries' = n
    /\ sleep_time' = st
    /\ attempt' = 0
    /\ requests' = 0
    /\ sleeps' = <<>>
    /\ logs' = <<>>
    /\ served' = <<>>
    /\ result' = IF result.kind = "return" THEN result ELSE [kind |-> "none", exc |-> "none", val |-> <<>>]
    /\ fpc' = IF result.kind = "return" THEN "done"
              ELSE IF f = "get_artist_spotify" THEN "token" ELSE "loop"

\* Entry of a fetch function: its locals are fresh.  get_artist_spotify first
\* asks for an access token; the other two are handed one.
EnterFetch(f, n, st) ==
    /\ fn' = f
    /\ max_retries' = n
    /\ sleep_time' = st
    /\ attempt' = 0
    /\ requests' = 0
    /\ sleeps' = <<>>
    /\ logs' = <<>>
    /\ result' = NoResult
    /\ served' = <<>>
    /\ fpc' = IF f = "get_artist_spotify" THEN "token" ELSE "loop"

\* get_artist_spotify: token = get_spotify_access_token() succeeds.
TokenAcquired ==
    /\ fpc = "token"
    /\ fpc' = "loop"
    /\ UNCHANGED <<fn, max_retries, sleep_time, attempt, requests, sleeps, logs, result, served>>
    /\ UNCHANGED <<artistsVars, harnessVars, inputVars, driverVars, requested>>

\* get_artist_spotify: get_spotify_access_token() raises; the function logs
\* and raises Exception without entering the loop.
TokenFailed ==
    /\ fpc = "token"
    /\ fpc' = "done"
    /\ logs' = Append(logs, [level |-> "error", delay |-> 0])
    /\ result' = Raised("Exception")
    /\ UNCHANGED <<fn, max_retries, sleep_time, attempt, requests, sleeps, served>>
    /\ UNCHANGED <<artistsVars, harnessVars, inputVars, driverVars, requested>>

\* The stub transport of a direct call records its answers; the pipeline
\* scripts talk to the live API and nothing is recorded.
Record(resp) == IF script \in {"call", "twice"} THEN Append(served, resp) ELSE served

\* One iteration of the retry loop in which the try block returns.
AttemptReturns(resp) ==
    /\ requests' = requests + 1
    /\ served' = Record(resp)
    /\ result' = Returned(ReturnValue(resp))
    /\ fpc' = "done"
    /\ UNCHANGED <<attempt, sleeps, logs>>

\* One iteration in which the try block raises and the except block runs:
\* warning with the delay, then the sleep.
AttemptBacksOff(resp) ==
    /\ requests' = requests + 1
    /\ served' = Record(resp)
    /\ logs' = Append(logs, [level |-> "warning", delay |-> BackoffTime(sleep_time, attempt)])
    /\ sleeps' = Append(sleeps, BackoffTime(sleep_time, attempt))
    /\ attempt' = attempt + 1
    /\ UNCHANGED <<fpc, result>>

\* One iteration in which the try block raises an exception the except clause
\* does not catch: it leaves the function.
AttemptPropagates(resp) ==
    /\ requests' = requests + 1
    /\ served' = Record(resp)
    /\ result' = Raised(TryBody(resp))
    /\ fpc' = "done"
    /\ UNCHANGED <<attempt, sleeps, logs>>

Attempt ==
    /\ fpc = "loop"
    /\ InRange(attempt, max_retries)
    /\ \E resp \in transport :
          IF TryBody(resp) = "none" THEN AttemptReturns(resp)
          ELSE IF ExceptException(TryBody(resp)) THEN AttemptBacksOff(resp)
          ELSE AttemptPropagates(resp)
    /\ requested' = requested \cup {cur}
    /\ UNCHANGED <<fn, max_retries, sleep_time>>
    /\ UNCHANGED <<artistsVars, harnessVars, inputVars, driverVars>>

\* The loop is over without a return: the code after the loop.
Exhausted ==
    /\ fpc = "loop"
    /\ ~InRange(attempt, max_retries)
    /\ logs' = logs \o ExhaustionLogs(fn)
    /\ result' = Raised(ExhaustionError(fn))
    /\ fpc' = "done"
    /\ UNCHANGED <<fn, max_retries, sleep_time, attempt, requests, sleeps, served>>
    /\ UNCHANGED <<artistsVars, harnessVars, inputVars, driverVars, requested>>

\* ------------------------------------------------- one direct call ("call")

\* No script of the pipeline is running.
NoPipeline ==
    /\ pc = "none"
    /\ dry_run = FALSE
    /\ num_artists = 0
    /\ artists = 0
    /\ artist_fields = {}
    /\ i = 0
    /\ albums = NoAlbums
    /\ j = 0
    /\ cur = NoItem
    /\ requested = {}
    /\ uploads = <<>>
    /\ files = <<>>
    /\ lastdoc = <<>>
    /\ outcome = "running"
    /\ error = "none"
    /\ batch_size = 0
    /\ metrics = <<>>
    /\ enriched = <<>>
    /\ pauses = 0
    /\ calls = 0

\* No fetch function has been entered.
NoFetch ==
    /\ fn = "none"
    /\ fpc = "idle"
    /\ max_retries = 0
    /\ sleep_time = 0
    /\ attempt = 0
    /\ requests = 0
    /\ sleeps = <<>>
    /\ logs = <<>>
    /\ result = NoResult
    /\ served = <<>>

\* A fetch function has just been entered with its arguments.
FetchEntered ==
    /\ fn \in FetchFunctions
    /\ max_retries \in 0..MaxRetries
    /\ sleep_time \in 1..MaxSleepTime
    /\ attempt = 0
    /\ requests = 0
    /\ sleeps = <<>>
    /\ logs = <<>>
    /\ result = NoResult
    /\ served = <<>>
    /\ fpc = IF fn = "get_artist_spotify" THEN "token" ELSE "loop"

Init ==
    /\ script = "call"
    /\ transport = Responses
    /\ finished = <<>>
    /\ FetchEntered
    /\ NoPipeline

Next ==
    \/ TokenAcquired
    \/ TokenFailed
    \/ Attempt
    \/ Exhausted

Spec == Init /\ [][Next]_vars

\* ------------------- two calls with the same arguments, one answer ("twice")

\* The transport is a stub with one fixed answer to every request.
InitTwice ==
    /\ script = "twice"
    /\ transport \in {{r} : r \in Responses}
    /\ finished = <<>>
    /\ FetchEntered
    /\ NoPipeline

\* The first call has ended; the caller notes what it saw and calls the same
\* function again with the same arguments.
SecondCall ==
    /\ script = "twice"
    /\ fpc = "done"
    /\ finished = <<>>
    /\ finished' = <<[result |-> result, requests |-> requests, sleeps |-> sleeps]>>
    /\ EnterFetch(fn, max_retries, sleep_time)
    /\ UNCHANGED <<script, transport, inputVars, driverVars, artistsVars, requested>>

NextTwice ==
    \/ TokenAcquired
    \/ TokenFailed
    \/ Attempt
    \/ Exhausted
    \/ SecondCall

SpecTwice == InitTwice /\ [][NextTwice]_vars

\* ------------------------- the scripts get_albums.py and get_songs.py

InitPipeline ==
    /\ script \in {"artists", "albums", "songs"}
    /\ transport = Responses
    /\ finished = <<>>
    /\ NoFetch
    /\ pc = "main"
    /\ dry_run \in (IF script = "artists" THEN {FALSE} ELSE BOOLEAN)
    /\ num_artists \in (CASE script = "albums" -> (-1)..(MaxArtists + 1)
                         [] script = "songs" -> {DefaultNumArtists}
                         [] OTHER -> {0})
    /\ artists \in (IF script = "artists" THEN {0} ELSE 0..MaxArtists)
    /\ artist_fields \in (IF script = "artists" THEN {{}} ELSE ArtistFormats)
    /\ i = 0
    /\ albums = NoAlbums
    /\ j = 0
    /\ cur = NoItem
    /\ requested = {}
    /\ uploads = <<>>
    /\ files = <<>>
    /\ lastdoc = <<>>
    /\ outcome = "running"
    /\ error = "none"
    /\ batch_size \in (IF script = "artists" THEN BatchSizes ELSE {0})
    /\ metrics \in (IF script = "artists" THEN KworbTables ELSE {<<>>})
    /\ enriched = [k \in DOMAIN metrics |-> <<>>]
    /\ pauses = 0
    /\ calls = 0

\* An exception reaches the top of the script: every function on the way
\* logs it and raises a new Exception, and nothing catches that one.
RaiseOut ==
    /\ pc' = "exit"
    /\ outcome' = "raised"
    /\ UNCHANGED <<i, albums, j, cur, uploads, files, lastdoc>>

\* ... caused by exception exc.
RaiseWith(exc) == RaiseOut /\ error' = exc

\* main: get_artists_from_gcs succeeds, then the branch on --dry_run.
LoadArtists ==
    /\ script \in {"albums", "songs"}
    /\ pc = "main"
    /\ pc' = IF script = "albums" THEN AlbumsMainBranch(dry_run) ELSE SongsMainBranch(dry_run)
    /\ outcome' = IF pc' = "exit" THEN "ok" ELSE outcome
    /\ UNCHANGED error
    /\ i' = 1
    /\ UNCHANGED <<albums, j, cur, uploads, files, lastdoc>>
    /\ UNCHANGED <<artistsVars, harnessVars, fetchVars, inputVars, requested>>

\* main: get_artists_from_gcs raises.
LoadArtistsFails ==
    /\ script \in {"albums", "songs"}
    /\ pc = "main"
    /\ RaiseWith("StorageError")
    /\ UNCHANGED <<artistsVars, harnessVars, fetchVars, inputVars, requested>>

\* write_albums_to_gcs, dry_run, write_songs_to_gcs: the access token (and the
\* storage client) is obtained before the loop.
SetupDone ==
    /\ pc \in {"write_token", "dry_token", "songs_token"}
    /\ pc' = CASE pc = "write_token" -> "write_loop"
               [] pc = "dry_token" -> "dry_loop"
               [] pc = "songs_token" -> "songs_loop"
    /\ UNCHANGED <<i, albums, j, cur, uploads, files, lastdoc, outcome, error>>
    /\ UNCHANGED <<artistsVars, harnessVars, fetchVars, inputVars, requested>>

\* ... or get_spotify_access_token (or the storage client) raises.
SetupFails ==
    /\ pc \in {"write_token", "dry_token", "songs_token"}
    /\ RaiseWith("TokenError")
    /\ UNCHANGED <<artistsVars, harnessVars, fetchVars, inputVars, requested>>

\* Variant of the drivers' exception handling: the failed item is skipped and
\* the loop goes on with the next one.
FetchRaisedSkips ==
    /\ pc \in {"write_fetch", "dry_fetch", "songs_fetch"}
    /\ fpc = "done"
    /\ result.kind = "raise"
    /\ pc' = CASE pc = "write_fetch" -> "write_loop"
               [] pc = "dry_fetch" -> "dry_loop"
               [] pc = "songs_fetch" -> "songs_albums"
    /\ i' = IF pc = "songs_fetch" THEN i ELSE i + 1
    /\ j' = IF pc = "songs_fetch" THEN j + 1 ELSE j
    /\ UNCHANGED <<albums, cur, uploads, files, lastdoc, outcome, error>>
    /\ UNCHANGED <<artistsVars, harnessVars, fetchVars, inputVars, requested>>

\* The fetch function raised: process_albums_from_spotify or
\* process_album_songs_from_spotify logs and raises Exception, and so does the
\* driver around it; the loop is left.
FetchRaised ==
    /\ pc \in {"write_fetch", "dry_fetch", "songs_fetch"}
    /\ fpc = "done"
    /\ result.kind = "raise"
    /\ RaiseWith(result.exc)
    /\ UNCHANGED <<artistsVars, harnessVars, fetchVars, inputVars, requested>>

\* The fetch function returned, and writing the document (the upload, or
\* opening the local file) raises.
StoreFails ==
    /\ pc \in {"write_fetch", "dry_fetch", "songs_fetch"}
    /\ fpc = "done"
    /\ result.kind = "return"
    /\ RaiseWith("StorageError")
    /\ UNCHANGED <<artistsVars, harnessVars, fetchVars, inputVars, requested>>

\* write_albums_to_gcs, one artist: the blob name reads spotify_id and
\* artist_name, then process_albums_from_spotify calls the fetch function.
WriteAlbumsIterate ==
    /\ pc = "write_loop"
    /\ i <= artists
    /\ IF {"spotify_id", "artist_name"} \subseteq artist_fields
       THEN /\ cur' = Item("albums", i, 0)
            /\ EnterFetch("get_albums_from_spotify", DefaultMaxRetries, DefaultSleepTime)
            /\ pc' = "write_fetch"
            /\ UNCHANGED <<i, albums, j, uploads, files, lastdoc, outcome, error>>
       ELSE RaiseWith("KeyError") /\ UNCHANGED fetchVars
    /\ UNCHANGED <<artistsVars, harnessVars, inputVars, requested>>

\* Variant of the upload step: the upload is handed to the background and the
\* loop goes on before the blob is there.
WriteAlbumsUploadDeferred ==
    /\ pc = "write_fetch"
    /\ fpc = "done"
    /\ result.kind = "return"
    /\ i' = i + 1
    /\ pc' = "write_loop"
    /\ UNCHANGED <<albums, j, cur, uploads, files, lastdoc, outcome, error>>
    /\ UNCHANGED <<artistsVars, harnessVars, fetchVars, inputVars, requested>>

\* ... the album list is built from the page and uploaded.
WriteAlbumsUpload ==
    /\ pc = "write_fetch"
    /\ fpc = "done"
    /\ result.kind = "return"
    /\ uploads' = Append(uploads, cur)
    /\ lastdoc' = RecordsOf(result.val[1])
    /\ i' = i + 1
    /\ pc' = "write_loop"
    /\ UNCHANGED <<albums, j, cur, files, outcome, error>>
    /\ UNCHANGED <<artistsVars, harnessVars, fetchVars, inputVars, requested>>

\* write_albums_to_gcs: the loop is over.
WriteAlbumsDone ==
    /\ pc = "write_loop"
    /\ i > artists
    /\ pc' = "exit"
    /\ outcome' = "ok"
    /\ UNCHANGED error
    /\ UNCHANGED <<i, albums, j, cur, uploads, files, lastdoc>>
    /\ UNCHANGED <<artistsVars, harnessVars, fetchVars, inputVars, requested>>

\* dry_run, one artist of artists[:number_of_artists]:
\* process_albums_from_spotify reads spotify_id and calls the fetch function.
DryRunIterate ==
    /\ pc = "dry_loop"
    /\ i <= SliceLen(artists, num_artists)
    /\ IF "spotify_id" \in artist_fields
       THEN /\ cur' = Item("albums", i, 0)
            /\ EnterFetch("get_albums_from_spotify", DefaultMaxRetries, DefaultSleepTime)
            /\ pc' = "dry_fetch"
            /\ UNCHANGED <<i, albums, j, uploads, files, lastdoc, outcome, error>>
       ELSE RaiseWith("KeyError") /\ UNCHANGED fetchVars
    /\ UNCHANGED <<artistsVars, harnessVars, inputVars, requested>>

\* ... the album list is built (it reads artist_name) and dumped to a local
\* file.
DryRunWrite ==
    /\ pc = "dry_fetch"
    /\ fpc = "done"
    /\ result.kind = "return"
    /\ IF "artist_name" \in artist_fields
       THEN /\ files' = Append(files, cur)
            /\ lastdoc' = RecordsOf(result.val[1])
            /\ i' = i + 1
            /\ pc' = "dry_loop"
            /\ UNCHANGED <<albums, j, cur, uploads, outcome, error>>
       ELSE RaiseWith("KeyError")
    /\ UNCHANGED <<artistsVars, harnessVars, fetchVars, inputVars, requested>>

\* dry_run: the loop is over.
DryRunDone ==
    /\ pc = "dry_loop"
    /\ i > SliceLen(artists, num_artists)
    /\ pc' = "exit"
    /\ outcome' = "ok"
    /\ UNCHANGED error
    /\ UNCHANGED <<i, albums, j, cur, uploads, files, lastdoc>>
    /\ UNCHANGED <<artistsVars, harnessVars, fetchVars, inputVars, requested>>

\* write_songs_to_gcs, one artist: get_albums_from_gcs downloads the artist's
\* albums.json (the name reads full_blob_name).
SongsNextArtist ==
    /\ pc = "songs_loop"
    /\ i <= artists
    /\ IF "full_blob_name" \in artist_fields
       THEN /\ \E f \in AlbumFiles(MaxAlbums) : albums' = f
            /\ j' = 1
            /\ pc' = "songs_albums"
            /\ UNCHANGED <<i, cur, uploads, files, lastdoc, outcome, error>>
       ELSE RaiseWith("KeyError")
    /\ UNCHANGED <<artistsVars, harnessVars, fetchVars, inputVars, requested>>

\* ... or get_albums_from_gcs raises.
SongsAlbumsDownloadFails ==
    /\ pc = "songs_loop"
    /\ i <= artists
    /\ RaiseWith("StorageError")
    /\ UNCHANGED <<artistsVars, harnessVars, fetchVars, inputVars, requested>>

\* write_songs_to_gcs, one album: a record whose type is "album" gets a blob
\* (the name reads spotify_id) and process_album_songs_from_spotify calls the
\* fetch function; any other record is passed over.
SongsNextAlbum ==
    /\ pc = "songs_albums"
    /\ j <= Len(albums.types)
    /\ IF "type" \notin albums.fields
       THEN RaiseWith("KeyError") /\ UNCHANGED fetchVars
       ELSE IF albums.types[j] # "album"
       THEN /\ j' = j + 1
            /\ UNCHANGED <<pc, i, albums, cur, uploads, files, lastdoc, outcome, error>>
            /\ UNCHANGED fetchVars
       ELSE IF "spotify_id" \in albums.fields
       THEN /\ cur' = Item("songs", i, j)
            /\ EnterFetch("fetch_album_songs_from_spotify", DefaultMaxRetries, DefaultSleepTime)
            /\ pc' = "songs_fetch"
            /\ UNCHANGED <<i, albums, j, uploads, files, lastdoc, outcome, error>>
       ELSE RaiseWith("KeyError") /\ UNCHANGED fetchVars
    /\ UNCHANGED <<artistsVars, harnessVars, inputVars, requested>>

\* ... the song list is built (each song reads the record's album and
\* release_date) and uploaded; then time.sleep(0.5).
SongsUpload ==
    /\ pc = "songs_fetch"
    /\ fpc = "done"
    /\ result.kind = "return"
    /\ IF result.val[1].items = <<>> \/ {"album", "release_date"} \subseteq albums.fields
       THEN /\ uploads' = Append(uploads, cur)
            /\ lastdoc' = RecordsOf(result.val[1])
            /\ j' = j + 1
            /\ pc' = "songs_albums"
            /\ UNCHANGED <<i, albums, cur, files, outcome, error>>
       ELSE RaiseWith("KeyError")
    /\ UNCHANGED <<artistsVars, harnessVars, fetchVars, inputVars, requested>>

\* write_songs_to_gcs: the albums of the artist are done; the summary line
\* reads artist['artist'].
SongsArtistDone ==
    /\ pc = "songs_albums"
    /\ j > Len(albums.types)
    /\ IF "artist" \in artist_fields
       THEN /\ i' = i + 1
            /\ pc' = "songs_loop"
            /\ UNCHANGED <<albums, j, cur, uploads, files, lastdoc, outcome, error>>
       ELSE RaiseWith("KeyError")
    /\ UNCHANGED <<artistsVars, harnessVars, fetchVars, inputVars, requested>>

\* write_songs_to_gcs: the loop is over.
SongsDone ==
    /\ pc = "songs_loop"
    /\ i > artists
    /\ pc' = "exit"
    /\ outcome' = "ok"
    /\ UNCHANGED error
    /\ UNCHANGED <<i, albums, j, cur, uploads, files, lastdoc>>
    /\ UNCHANGED <<artistsVars, harnessVars, fetchVars, inputVars, requested>>

\* get_artists.py, main: process_kworb_html(1) returns the artist list.
KworbProcessed ==
    /\ script = "artists"
    /\ pc = "main"
    /\ pc' = "batch_loop"
    /\ UNCHANGED <<i, albums, j, cur, uploads, files, lastdoc, outcome, error>>
    /\ UNCHANGED <<artistsVars, harnessVars, fetchVars, inputVars, requested>>

\* ... or raises (the page cannot be fetched or parsed).
KworbFails ==
    /\ script = "artists"
    /\ pc = "main"
    /\ RaiseWith("Exception")
    /\ UNCHANGED <<artistsVars, harnessVars, fetchVars, inputVars, requested>>

\* process_spotify_response, one value of range(0, len(artist_list),
\* batch_size): the batch is sliced and get_artist_spotify is called for it.
BatchIterate ==
    /\ pc = "batch_loop"
    /\ i < Len(metrics)
    /\ cur' = Item("artists", (i \div batch_size) + 1, 0)
    /\ calls' = calls + 1
    /\ EnterFetch("get_artist_spotify", DefaultMaxRetries, DefaultSleepTime)
    /\ pc' = "batch_fetch"
    /\ UNCHANGED <<i, albums, j, uploads, files, lastdoc, outcome, error>>
    /\ UNCHANGED <<batch_size, metrics, enriched, pauses>>
    /\ UNCHANGED <<harnessVars, inputVars, requested>>

\* ... the response is there: the artists of the batch are enriched in order,
\* each from response["artists"][index], then time.sleep(1).  A response with
\* no entry at index raises IndexError; a record without "metrics" raises
\* KeyError after its spotify_url was set.  Both leave the function.
BatchEnrich ==
    /\ pc = "batch_fetch"
    /\ fpc = "done"
    /\ result.kind = "return"
    /\ LET batch == BatchOf(i, batch_size, Len(metrics))
           entries == result.val[1].items
           HasEntry(k) == k - i <= Len(entries)
           bad == {k \in batch : ~(HasEntry(k) /\ metrics[k])}
           stop == IF bad = {} THEN Len(metrics) + 1 ELSE Min(bad)
       IN  /\ enriched' =
                 [k \in DOMAIN enriched |->
                     IF k \in batch /\ k < stop
                     THEN Append(enriched[k], [entry |-> entries[k - i], complete |-> TRUE])
                     ELSE IF k = stop /\ HasEntry(k)
                     THEN Append(enriched[k], [entry |-> entries[k - i], complete |-> FALSE])
                     ELSE enriched[k]]
           /\ IF bad = {}
              THEN /\ pauses' = pauses + BatchPause
                   /\ i' = i + batch_size
                   /\ pc' = "batch_loop"
                   /\ UNCHANGED <<albums, j, cur, uploads, files, lastdoc, outcome, error>>
              ELSE /\ RaiseWith(IF HasEntry(stop) THEN "KeyError" ELSE "IndexError")
                   /\ UNCHANGED pauses
    /\ UNCHANGED <<batch_size, metrics, calls>>
    /\ UNCHANGED <<harnessVars, fetchVars, inputVars, requested>>

\* ... get_artist_spotify raised: process_spotify_response logs and raises
\* Exception, which ends the script.
BatchFetchRaised ==
    /\ pc = "batch_fetch"
    /\ fpc = "done"
    /\ result.kind = "raise"
    /\ RaiseWith(result.exc)
    /\ UNCHANGED <<artistsVars, harnessVars, fetchVars, inputVars, requested>>

\* process_spotify_response: the range is exhausted, the list is returned.
BatchesDone ==
    /\ pc = "batch_loop"
    /\ i >= Len(metrics)
    /\ pc' = "artists_write"
    /\ UNCHANGED <<i, albums, j, cur, uploads, files, lastdoc, outcome, error>>
    /\ UNCHANGED <<artistsVars, harnessVars, fetchVars, inputVars, requested>>

\* write_to_gcs: the artist list is uploaded as one document.
ArtistsWrite ==
    /\ pc = "artists_write"
    /\ uploads' = Append(uploads, Item("artists", 0, 0))
    /\ lastdoc' = [k \in DOMAIN enriched |-> enriched[k][1].entry]
    /\ pc' = "exit"
    /\ outcome' = "ok"
    /\ UNCHANGED <<i, albums, j, cur, files, error>>
    /\ UNCHANGED <<artistsVars, harnessVars, fetchVars, inputVars, requested>>

\* ... or the upload raises.
ArtistsWriteFails ==
    /\ pc = "artists_write"
    /\ RaiseWith("StorageError")
    /\ UNCHANGED <<artistsVars, harnessVars, fetchVars, inputVars, requested>>

NextPipeline ==
    \/ KworbProcessed
    \/ KworbFails
    \/ BatchIterate
    \/ BatchEnrich
    \/ BatchFetchRaised
    \/ BatchesDone
    \/ ArtistsWrite
    \/ ArtistsWriteFails
    \/ TokenAcquired
    \/ TokenFailed
    \/ LoadArtists
    \/ LoadArtistsFails
    \/ SetupDone
    \/ SetupFails
    \/ WriteAlbumsIterate
    \/ WriteAlbumsUpload
    \/ WriteAlbumsDone
    \/ DryRunIterate
    \/ DryRunWrite
    \/ DryRunDone
    \/ SongsNextArtist
    \/ SongsAlbumsDownloadFails
    \/ SongsNextAlbum
    \/ SongsUpload
    \/ SongsArtistDone
    \/ SongsDone
    \/ FetchRaised
    \/ StoreFails
    \/ Attempt
    \/ Exhausted

SpecPipeline == InitPipeline /\ [][NextPipeline]_vars

\* ------------------------------------------------------------------ claims
\* The claims speak of the transport's answers in HTTP terms, independently of
\* how the code classifies them.

\* The request got a 2xx answer.
Http2xx(resp) == resp.status >= 200 /\ resp.status <= 299

\* The HTTP attempt failed: no answer, or a non-2xx status.
HttpFailed(resp) == ~Http2xx(resp)

\* A fatal status in the spec's taxonomy: non-2xx, not 429, not 5xx.
FatalStatus(resp) ==
    /\ resp.status # 0
    /\ ~Http2xx(resp)
    /\ resp.status # 429
    /\ ~(resp.status >= 500 /\ resp.status <= 599)

\* A 2xx answer whose body is empty or is not JSON.
BadBody2xx(resp) == Http2xx(resp) /\ resp.body \in BadBodies

\* A 2xx answer with a JSON body.
Success(resp) == Http2xx(resp) /\ resp.body \in GoodBodies

\* The call ended before its loop: get_artist_spotify could not get a token.
TokenRaised == fn = "get_artist_spotify" /\ result = Raised("Exception")

CallDone == fpc = "done"

\* C1: for every max_retries = n >= 1 and each of the three fetch functions, a
\* call whose HTTP attempts all fail (and that reached its loop) issues exactly
\* n requests, never more at any moment, and ends by raising; it returns no
\* value.
C1_AlwaysFailingIssuesExactlyN ==
    (max_retries >= 1 /\ ~TokenRaised /\ \A k \in DOMAIN served : HttpFailed(served[k]))
        => /\ requests <= max_retries
           /\ result.kind # "return"
           /\ CallDone => (requests = max_retries /\ result.kind = "raise" /\ result.val = <<>>)

C1_Witness ==
    /\ CallDone
    /\ fn = "get_artist_spotify"
    /\ max_retries = MaxRetries
    /\ requests = MaxRetries
    /\ result.kind = "raise"
    /\ \A k \in DOMAIN served : HttpFailed(served[k])

\* C2 as stated, for the calls that allow a retry (max_retries >= 2, as the
\* default 3 does): when the first response has a fatal status (non-2xx other
\* than 429/5xx), the fetch makes exactly 1 attempt, sleeps never, and raises.
C2_FatalShortCircuits ==
    (CallDone /\ max_retries >= 2 /\ Len(served) >= 1 /\ FatalStatus(served[1]))
        => (requests = 1 /\ sleeps = <<>> /\ result.kind = "raise")

\* C2 amended: a fatal status is handled like every other failure.  The
\* attempt that meets it at 0-based index i is followed by a sleep of
\* sleep_time * 2^i, the function never raises the HTTP error itself, and the
\* call ends only by a later success or by raising after max_retries attempts.
C2_FatalIsRetried ==
    \A k \in DOMAIN served :
        FatalStatus(served[k])
            => /\ Len(sleeps) >= k
               /\ sleeps[k] = sleep_time * (2 ^ (k - 1))
               /\ result.exc # "HTTPError"
               /\ CallDone => \/ (result.kind = "return" /\ requests > k)
                              \/ (result.kind = "raise" /\ requests = max_retries)

C2_Witness ==
    /\ CallDone
    /\ Len(served) = 3
    /\ served[1].status = 404
    /\ FatalStatus(served[1])
    /\ result.kind = "return"
    /\ sleeps = <<sleep_time, 2 * sleep_time>>

\* C3 as stated: with max_retries=3 and base delay 1 against a transport that
\* always answers 500, the fetch makes 3 attempts, sleeps 1s and then 2s, does
\* not sleep after the third failed attempt and raises; in general a fetch
\* that exhausts n attempts performs exactly n-1 sleeps.
C3_NoSleepAfterLastAttempt ==
    (CallDone /\ max_retries >= 1 /\ result.kind = "raise" /\ requests = max_retries)
        => /\ Len(sleeps) = max_retries - 1
           /\ (max_retries = 3 /\ sleep_time = 1 /\ \A k \in DOMAIN served : served[k].status = 500)
                  => (requests = 3 /\ sleeps = <<1, 2>>)

\* C4 as stated, for a response met while attempts remain: a 2xx response
\* with an empty or malformed body is not retried: it is the last request of
\* the call and no sleep follows it.
C4_BadBodyNotRetried ==
    \A k \in DOMAIN served :
        (CallDone /\ k < max_retries /\ BadBody2xx(served[k]))
            => (requests = k /\ Len(sleeps) < k)

\* C4 amended: a 2xx response with an empty or malformed body is handled like
\* every other failure.  The attempt that meets it at 0-based index i is
\* followed by a sleep of sleep_time * 2^i, the decode error never reaches the
\* caller, and the call ends only by a later success or by raising after
\* max_retries attempts.
C4_BadBodyIsRetried ==
    \A k \in DOMAIN served :
        BadBody2xx(served[k])
            => /\ Len(sleeps) >= k
               /\ sleeps[k] = sleep_time * (2 ^ (k - 1))
               /\ result.exc # "JSONDecodeError"
               /\ CallDone => \/ (result.kind = "return" /\ requests > k)
                              \/ (result.kind = "raise" /\ requests = max_retries)

C4_Witness ==
    /\ CallDone
    /\ Len(served) = 2
    /\ served[1] = [status |-> 200, body |-> ""]
    /\ result.kind = "return"
    /\ requests = 2
    /\ sleeps = <<sleep_time>>

\* C5: the sleep after the failed attempt with 0-based index i is
\* sleep_time * 2^i, for every failed attempt of the call; with sleep_time = 1
\* the delays of attempts 0..3 are 1, 2, 4, 8 (no jitter, no cap).
C5_DelayDoublesPerAttempt ==
    /\ Len(sleeps) = attempt
    /\ \A k \in DOMAIN sleeps : sleeps[k] = sleep_time * (2 ^ (k - 1))
    /\ \A k \in DOMAIN served : ~Success(served[k]) => k \in DOMAIN sleeps
    /\ sleep_time = 1 => \A k \in DOMAIN sleeps : k <= 4 => sleeps[k] = <<1, 2, 4, 8>>[k]

C5_Witness == sleep_time = 1 /\ sleeps = <<1, 2, 4, 8>> /\ CallDone /\ requests = 4

\* C6: a call whose first successful attempt has 0-based index k makes exactly
\* k+1 requests and returns the decoded body of that attempt; nothing is
\* requested and nothing is slept after it.
C6_ReturnsAtFirstSuccess ==
    /\ \A k \in DOMAIN served :
          Success(served[k])
              => /\ CallDone
                 /\ requests = k
                 /\ Len(served) = k
                 /\ Len(sleeps) = k - 1
                 /\ result = Returned(Json(served[k].body))
                 /\ \A m \in 1..(k - 1) : ~Success(served[m])
    /\ result.kind = "return" => (served # <<>> /\ Success(served[Len(served)]))

C6_Witness ==
    /\ CallDone
    /\ requests = 3
    /\ Success(served[3])
    /\ served[3].body = "{page b}"
    /\ result.val = <<[items |-> <<"b1", "b2">>, next |-> "offset=50"]>>

\* C7: HTTP 429 is retried on the exponential schedule: a 429 met by the
\* attempt with index i is followed by a sleep of sleep_time * 2^i; with
\* max_retries=3, sleep_time=1 and answers 429, 429, 200 the fetch makes 3
\* attempts, sleeps 1s then 2s and returns the body of the 200 response.
C7_RateLimitIsRetried ==
    /\ \A k \in DOMAIN served :
          served[k].status = 429 => (Len(sleeps) >= k /\ sleeps[k] = sleep_time * (2 ^ (k - 1)))
    /\ (/\ max_retries = 3
        /\ sleep_time = 1
        /\ Len(served) = 3
        /\ served[1].status = 429
        /\ served[2].status = 429
        /\ Success(served[3]))
          => /\ CallDone
             /\ requests = 3
             /\ sleeps = <<1, 2>>
             /\ result = Returned(Json(served[3].body))

C7_Witness ==
    /\ fn = "get_albums_from_spotify"
    /\ max_retries = 3
    /\ sleep_time = 1
    /\ Len(served) = 3
    /\ served[1].status = 429
    /\ served[2].status = 429
    /\ served[3] = [status |-> 200, body |-> "{page a}"]
    /\ result = Returned([items |-> <<"a1">>, next |-> "null"])

\* C9: two calls of a fetch function with the same arguments, against a
\* transport (and token service) that always succeeds with the same response,
\* end with identical results, the decoded body of that response, each after
\* exactly one request and no sleep: nothing of the first call reaches the
\* second.
C9_SecondCallSameAsFirst ==
    (/\ script = "twice"
     /\ Len(finished) = 1
     /\ CallDone
     /\ max_retries >= 1
     /\ \A r \in transport : Success(r)
     /\ ~TokenRaised
     /\ finished[1].result # Raised("Exception"))
        => /\ result = finished[1].result
           /\ \A r \in transport : result = Returned(Json(r.body))
           /\ requests = 1
           /\ finished[1].requests = 1
           /\ sleeps = <<>>
           /\ finished[1].sleeps = <<>>

C9_Witness ==
    /\ script = "twice"
    /\ Len(finished) = 1
    /\ CallDone
    /\ fn = "get_albums_from_spotify"
    /\ transport = {[status |-> 200, body |-> "{page b}"]}
    /\ result.kind = "return"
    /\ finished[1].result = result
    /\ requests = 1

\* The items of a sequence of items.
Range(seq) == {seq[k] : k \in DOMAIN seq}

\* Item it comes after item c in the order the driver loops visit them.
After(it, c) == it.artist > c.artist \/ (it.artist = c.artist /\ it.album > c.album)

\* C8: with --dry_run nothing is uploaded to the bucket: get_albums.py
\* processes only the first num_artists artists (every request and every file
\* written is for one of them) and uploads nothing, get_songs.py makes no
\* Spotify request and uploads nothing; an upload is only ever seen on a run
\* without --dry_run.  (num_artists counts artists: for a negative value the
\* slice artists[:num_artists] drops artists from the end instead.)
C8_DryRunUploadsNothing ==
    /\ dry_run => uploads = <<>>
    /\ (dry_run /\ script = "songs") => (requested = {} /\ fpc = "idle" /\ requests = 0)
    /\ (dry_run /\ script = "albums" /\ num_artists >= 0)
          => /\ \A it \in requested \cup Range(files) \cup ({cur} \ {NoItem}) :
                    it.artist >= 1 /\ it.artist <= num_artists /\ it.artist <= artists
             /\ Len(files) <= num_artists

C8_Witness ==
    /\ script = "albums"
    /\ dry_run
    /\ outcome = "ok"
    /\ artists = 3
    /\ num_artists = 2
    /\ files = <<Item("albums", 1, 0), Item("albums", 2, 0)>>
    /\ requested = {Item("albums", 1, 0), Item("albums", 2, 0)}
    /\ uploads = <<>>

\* The fetch for the current item of write_albums_to_gcs or write_songs_to_gcs
\* has ended by raising (in these drivers: by exhausting its retries).
DriverFetchRaised ==
    /\ script \in {"albums", "songs"}
    /\ ~dry_run
    /\ fpc = "done"
    /\ result.kind = "raise"

C10_Aborted ==
    DriverFetchRaised
        => /\ requests = 3
           /\ pc \in {"write_fetch", "songs_fetch", "exit"}
           /\ pc = "exit" => outcome = "raised"
           /\ cur \notin Range(uploads)
           /\ \A it \in requested \cup Range(uploads) : ~After(it, cur)
           /\ script = "albums"
                 => \A a \in 1..(cur.artist - 1) : Item("albums", a, 0) \in Range(uploads)
           /\ script = "songs"
                 => \A b \in 1..(cur.album - 1) :
                        albums.types[b] = "album" => Item("songs", cur.artist, b) \in Range(uploads)

C10_AbortStep ==
    /\ (DriverFetchRaised /\ pc # "exit")
          => (pc' = "exit" /\ outcome' = "raised" /\ uploads' = uploads /\ requested' = requested)
    /\ outcome = "raised" => (uploads' = uploads /\ requested' = requested /\ outcome' = "raised")
    /\ Len(uploads') >= Len(uploads) /\ SubSeq(uploads', 1, Len(uploads)) = uploads

\* C10: write_albums_to_gcs and write_songs_to_gcs abort the batch on the
\* first exhausted fetch.  When the fetch for item i has used up its retries,
\* the driver's next step is to raise; no blob is uploaded for item i; no
\* request and no upload is made for any later item, then or afterwards; the
\* blobs uploaded for the items before i stay uploaded.
C10_BatchAbortsOnFirstExhaustion == []C10_Aborted /\ [][C10_AbortStep]_vars

C10_Witness ==
    /\ script = "albums"
    /\ ~dry_run
    /\ outcome = "raised"
    /\ result = Raised("RuntimeError")
    /\ artists = 3
    /\ cur = Item("albums", 2, 0)
    /\ uploads = <<Item("albums", 1, 0)>>
    /\ requested = {Item("albums", 1, 0), Item("albums", 2, 0)}

\* The exception each fetch function constructs after its loop.
OwnExhaustionError(f) ==
    IF f = "fetch_album_songs_from_spotify" THEN "Exception" ELSE "RuntimeError"

\* C12: every failed attempt emits a retry (warning) log line carrying the
\* computed delay, and when the attempts are used up each of the three fetch
\* functions emits an error log line and then raises the exhaustion error it
\* constructs after its loop, not some other error.
C12_ExhaustionLoggedAndRaised ==
    /\ \A k \in DOMAIN sleeps :
          /\ k \in DOMAIN logs
          /\ logs[k] = [level |-> "warning", delay |-> sleeps[k]]
    /\ (CallDone /\ max_retries >= 1 /\ ~TokenRaised /\ result.kind = "raise")
          => /\ logs # <<>>
             /\ logs[Len(logs)].level = "error"
             /\ result.exc = OwnExhaustionError(fn)

\* C13: the albums and songs stages paginate: a document is written for an
\* artist or an album only after a page that announces no further page, and
\* it holds the items of every page, not only those of the first.
C13_CallerPaginates ==
    (/\ script \in {"albums", "songs"}
     /\ pc \in {"write_loop", "dry_loop", "songs_albums"}
     /\ result.kind = "return"
     /\ cur \in Range(uploads) \cup Range(files))
        => result.val[1].next = "null"

\* C14: the stages compose: a script that reads the artist records the
\* artists stage wrote, or the album records the albums stage wrote, never
\* ends on a missing field.
C14_StagesCompose ==
    (\/ artist_fields = ArtistsStageFields
     \/ albums.fields = AlbumsStageFields)
        => error # "KeyError"

\* The number of batches of at most size elements a list of length len splits
\* into.
NumBatches(len, size) == (len + size - 1) \div size

\* The artist at position k was enriched once, to the end.
EnrichedOnce(k) == Len(enriched[k]) = 1 /\ enriched[k][1].complete

\* C15: process_spotify_response cuts the artist list into consecutive batches
\* of at most batch_size artists in list order and calls get_artist_spotify
\* once per batch (none for an empty list); batch b is fetched only when the
\* artists of the batches before it are enriched and each of those batches was
\* followed by its pause; no artist is enriched twice, and on success every
\* artist is enriched exactly once, from the response entry at its own index
\* within its batch.
C15_BatchesPartitionTheList ==
    script = "artists" =>
        /\ calls <= NumBatches(Len(metrics), batch_size)
        /\ Len(metrics) = 0 => (calls = 0 /\ requested = {})
        /\ requested \subseteq {Item("artists", b, 0) : b \in 1..calls}
        /\ \A k \in DOMAIN enriched : Len(enriched[k]) <= 1
        /\ pc = "batch_fetch" =>
              /\ i = (calls - 1) * batch_size
              /\ cur = Item("artists", calls, 0)
              /\ pauses = BatchPause * (calls - 1)
              /\ \A k \in DOMAIN enriched :
                    IF k <= i THEN EnrichedOnce(k) ELSE enriched[k] = <<>>
        /\ (pc = "batch_loop" /\ calls >= 1) =>
              /\ i = calls * batch_size
              /\ pauses = BatchPause * calls
              /\ \A k \in DOMAIN enriched :
                    (k > i - batch_size /\ k <= i) =>
                        /\ EnrichedOnce(k)
                        /\ enriched[k][1].entry = result.val[1].items[k - (i - batch_size)]
        /\ (pc = "artists_write" \/ outcome = "ok") =>
              /\ calls = NumBatches(Len(metrics), batch_size)
              /\ pauses = BatchPause * calls
              /\ \A k \in DOMAIN enriched : EnrichedOnce(k)

\* The script ended well after two batches, the second one shorter.
C15_Witness ==
    /\ script = "artists"
    /\ outcome = "ok"
    /\ Len(metrics) = 3
    /\ batch_size = 2
    /\ calls = 2
    /\ uploads = <<Item("artists", 0, 0)>>

\* Entity it (an artist, an album or a batch of artists) is dealt with: its
\* document is uploaded (written to a local file by get_albums.py's dry run);
\* the artists of a batch are enriched and the batch's pause is over.
Resolved(it) ==
    CASE it.stage = "artists" ->
            /\ pauses >= BatchPause * it.artist
            /\ \A k \in DOMAIN enriched :
                  (k > (it.artist - 1) * batch_size /\ k <= it.artist * batch_size)
                      => EnrichedOnce(k)
      [] it.stage = "albums" /\ dry_run -> it \in Range(files)
      [] OTHER -> it \in Range(uploads)

\* Only the current entity can be unresolved, every other requested entity
\* comes before it, and a retry sequence runs only while the loop waits for it.
C11_InOrder ==
    /\ \A it \in requested \ {cur} : Resolved(it) /\ After(cur, it)
    /\ (cur \in requested
           /\ pc \in {"write_loop", "dry_loop", "songs_albums", "songs_loop",
                      "batch_loop", "artists_write"})
          => Resolved(cur)
    /\ fpc \in {"token", "loop"}
          => pc \in {"write_fetch", "dry_fetch", "songs_fetch", "batch_fetch"}

\* The first request of a call is for an entity not requested before, made
\* when every entity requested before is resolved; a new call is entered only
\* when the call before it returned, each of its failed attempts was slept
\* on, and its entity is resolved.
C11_Step ==
    /\ (requests = 0 /\ requests' = 1)
          => /\ cur \notin requested
             /\ \A it \in requested : Resolved(it) /\ After(cur, it)
    /\ (fpc = "done" /\ fpc' \in {"token", "loop"})
          => /\ result.kind = "return"
             /\ Len(sleeps) = requests - 1
             /\ Resolved(cur)
             /\ After(cur', cur)

\* C11: the requests of the pipeline loops are strictly sequential.  The
\* first request for the next entity (artist, album or batch of artists) is
\* never made before the retry sequence of the entity before it, every backoff
\* sleep included, is over; in the albums and songs stages that entity's
\* upload comes before it too.
C11_RequestsAreSequential == []C11_InOrder /\ [][C11_Step]_vars

\* The second artist's fetch is in its retry sequence, after one sleep; the
\* first artist's albums are uploaded.
C11_Witness ==
    /\ script = "albums"
    /\ ~dry_run
    /\ cur = Item("albums", 2, 0)
    /\ requested = {Item("albums", 1, 0), Item("albums", 2, 0)}
    /\ uploads = <<Item("albums", 1, 0)>>
    /\ fpc = "loop"
    /\ Len(sleeps) = 1

====
